---- MODULE Spec2Model ----
(***************************************************************************)
(* A model of python/king_coin.py: a centralised coin with one CoinMaker,  *)
(* two Persons (Alice and Bob), RSA-signed mint and transfer transactions  *)
(* and a ledger validated by Environment.validate; and of                  *)
(* python/linked_list_hash.py: a list of blocks linked by their hashes.    *)
(*                                                                         *)
(* Five specifications share the state:                                    *)
(*   RunSpec    - Environment.run, statement by statement;                 *)
(*   Spec       - a caller that repeats the steps of run (mint or send,    *)
(*                append, validate, credit) with any party, recipient,     *)
(*                key and coin;                                            *)
(*   LedgerSpec - validate applied to ledgers holding any transactions,    *)
(*                forged ones included (Transaction and ledger are public);*)
(*   RaceSpec   - two interleaved calls of send_single_coin_to;            *)
(*   ChainSpec  - a caller of Blockchain: add_block, change_block,         *)
(*                back_propagate_changes and head_pointer.                 *)
(***************************************************************************)
EXTENDS Integers, Sequences, FiniteSets, TLC

VARIABLES
    pool,       \* Party.pool of each party: the set of coins it holds
    ledger,     \* Environment.ledger: the list of transactions
    tx,         \* the transaction the caller holds (transactionN of run)
    verdict,    \* how the last call of validate / verify ended
    lastCall,   \* how the last call of mint / send_single_coin_to ended
    minted,     \* the coin ids os.urandom has produced so far
    pc,         \* the caller's position
    threads,    \* the concurrent calls of send_single_coin_to (RaceSpec)
    chain       \* the Blockchain of linked_list_hash.py (ChainSpec)

vars == <<pool, ledger, tx, verdict, lastCall, minted, pc, threads, chain>>

\* the state of king_coin.py's Environment and of its caller
coinVars == <<pool, ledger, tx, verdict, lastCall, minted, pc>>

---------------------------------------------------------------------------
(* Bounds *)

\* distinct coin ids drawn in Spec
MaxCoins == 2
\* ledger length in Spec
MaxLedger == 4
\* coin ids os.urandom may return in RunSpec
MaxCid == 9
\* ledger length in LedgerSpec
MaxForged == 3
\* blocks in the Blockchain of ChainSpec
MaxBlocks == 3
\* calls between two reads of head_pointer in ChainSpec after which the
\* caller does not propagate before it reads
MaxOps == 3
\* change_block calls in ChainSpec
MaxChanges == 1

---------------------------------------------------------------------------
(* Parties, keys and signatures *)

\* test_king_coin.py: CoinMaker(coin_name="KingCoin", name="Johnoshi")
CoinMakerName == "Johnoshi"
CoinName == "KingCoin"
\* Environment.__init__: alice and bob
Persons == {"Alice", "Bob"}
Parties == {CoinMakerName} \cup Persons

None == "None"

\* generate_keys: each party owns one key pair; the public key is named
\* after its owner, the private key never leaves the party.
PublicKey(p) == <<"pub", p>>

\* private_key.sign(content, PSS, SHA256): a signature is the pair of the
\* signing key and the signed bytes (the PSS salt does not affect verify).
Sign(p, content) == [key |-> PublicKey(p), over |-> content]

\* public_key.verify(signature, content, ...): TRUE when it returns, FALSE
\* when it raises InvalidSignature.
Verify(key, signature, content) ==
    signature.key = key /\ signature.over = content

\* to_public_key.public_bytes(Encoding.PEM, SubjectPublicKeyInfo)
PublicBytes(key) == <<key>>

\* Coin(cid, currency), a frozen dataclass: equality by both fields
Coin(cid) == [cid |-> cid, currency |-> CoinName]

\* bytearray(coin.cid) extended by the PEM bytes of the key
TransferContent(coin, key) == <<coin.cid>> \o PublicBytes(key)

\* the Transaction built by mint_single_coin
MintTransaction(p, coin) ==
    [type |-> "mint", coin |-> coin, content |-> <<coin.cid>>,
     currency |-> CoinName, party_from |-> p,
     signature |-> Sign(p, <<coin.cid>>), party_to |-> None]

\* the Transaction built by send_single_coin_to (CoinMaker and Person)
TransferTransaction(p, to_party, to_key, coin) ==
    [type |-> "transfer", coin |-> coin,
     content |-> TransferContent(coin, to_key),
     currency |-> coin.currency, party_from |-> p,
     signature |-> Sign(p, TransferContent(coin, to_key)),
     party_to |-> to_party]

\* no transaction in hand
NoTx ==
    [type |-> "none", coin |-> Coin(0), content |-> <<>>,
     currency |-> CoinName, party_from |-> None,
     signature |-> Sign(None, <<>>), party_to |-> None]

Balance(p) == Cardinality(pool[p])

---------------------------------------------------------------------------
(* Environment.validate *)

\* the for loop of validate: the i-th element of reversed(ledger[:-1]) is
\* L[Len(L) - 1 - i] (1-based), and self.ledger[i + 1] is L[i + 2].
RECURSIVE ValidateLoop(_, _)
ValidateLoop(L, i) ==
    IF i > Len(L) - 2 THEN "ok"
    ELSE LET transaction == L[Len(L) - 1 - i] IN
         IF transaction.type = "mint" \/ transaction.party_to = None
         THEN "ok"
         ELSE IF ~Verify(PublicKey(transaction.party_from),
                         L[i + 2].signature, transaction.content)
              THEN "InvalidSignature"
              ELSE ValidateLoop(L, i + 1)

\* validate with the first check made under the recipient's key
ValidateByRecipientKey(L, this_transaction) ==
    IF Len(L) = 0 THEN "IndexError"
    ELSE IF ~Verify(PublicKey(this_transaction.party_to),
                    L[Len(L)].signature, this_transaction.content)
         THEN "InvalidSignature"
         ELSE ValidateLoop(L, 0)

\* validate(this_transaction) on ledger L: "ok" when it returns None, else
\* the exception it raises.
Validate(L, this_transaction) ==
    IF Len(L) = 0 THEN "IndexError"
    ELSE IF ~Verify(PublicKey(this_transaction.party_from),
                    L[Len(L)].signature, this_transaction.content)
         THEN "InvalidSignature"
         ELSE ValidateLoop(L, 0)

\* no concurrent call is running
NoThreads == <<>>

---------------------------------------------------------------------------
(* python/linked_list_hash.py: the data of a block and its hashing.        *)
(*                                                                         *)
(* A block's data is an int or a str.  A str is the sequence of its        *)
(* characters, bytes are the sequence of their values.  hashlib.sha256 is  *)
(* idealised as collision-free: a digest stands for the message hashed.    *)
(* The message of a block with a next_hash is the bytes of str(data)       *)
(* followed by the 64 hexadecimal digits of next_hash; the fixed length    *)
(* makes the two parts recoverable, so the message is kept as the pair.    *)

IntData(n) == [type |-> "int", num |-> n, str |-> <<>>]
StrData(s) == [type |-> "str", num |-> 0, str |-> s]

\* the data a caller stores in blocks: 0, 2, "2" and "a"
BlockData == {IntData(0), IntData(2), StrData(<<"2">>), StrData(<<"a">>)}

\* bool(data): zero and the empty string are falsy
Truthy(data) == IF data.type = "int" THEN data.num # 0 ELSE data.str # <<>>

\* the decimal digit of k as a character
Digit(k) ==
    CASE k = 0 -> "0" [] k = 1 -> "1" [] k = 2 -> "2" [] k = 3 -> "3"
      [] k = 4 -> "4" [] k = 5 -> "5" [] k = 6 -> "6" [] k = 7 -> "7"
      [] k = 8 -> "8" [] k = 9 -> "9"

RECURSIVE Digits(_)
Digits(n) == IF n < 10 THEN <<Digit(n)>>
                       ELSE Digits(n \div 10) \o <<Digit(n % 10)>>

\* str(data)
PyStr(data) == IF data.type = "int" THEN Digits(data.num) ELSE data.str

\* ord(c) of the characters in use
Ord(c) ==
    CASE c = "0" -> 48 [] c = "1" -> 49 [] c = "2" -> 50 [] c = "3" -> 51
      [] c = "4" -> 52 [] c = "5" -> 53 [] c = "6" -> 54 [] c = "7" -> 55
      [] c = "8" -> 56 [] c = "9" -> 57 [] c = "a" -> 97

\* s.encode("utf-8"): one byte per ASCII character
Encode(s) == [i \in 1 .. Len(s) |-> Ord(s[i])]

\* bytes(n) of an int n: n zero bytes
ZeroBytes(n) == [i \in 1 .. n |-> 0]

\* None, where a hash is expected
NoHash == [digest |-> <<>>]

Sha256(message) == [digest |-> message]

\* Block(data)
Block(data) ==
    [data |-> data, hash |-> NoHash, next_hash |-> NoHash,
     data_hash |-> NoHash]

\* the value _hash_block_data returns (and stores in block.data_hash)
HashBlockData(block) ==
    IF block.data.type = "int"
    THEN Sha256(<<ZeroBytes(block.data.num)>>)
    ELSE Sha256(<<Encode(block.data.str)>>)

\* _hash_block raises RuntimeError("No data in block")
HashBlockRaises(block) == ~Truthy(block.data)

\* the value _hash_block returns when it does not raise
HashBlock(block) ==
    IF block.next_hash = NoHash
    THEN HashBlockData(block)
    ELSE Sha256(<<Encode(PyStr(block.data)), block.next_hash>>)

\* the block after a call of _hash_block that did not raise: both
\* branches store block.data_hash
Hashed(block) == [block EXCEPT !.data_hash = HashBlockData(block)]

\* display_x_characters_of_string(hexdigest): the fourteen digits shown
\* are taken to identify the digest
DisplayXCharactersOfString(hash) == <<"...", hash>>

\* the outcome of reading head_pointer: a string or an exception
NotRead == [raised |-> "NotRead", value |-> <<"...", NoHash>>]
Returned(value) == [raised |-> "none", value |-> value]
Raised(exception) == [raised |-> exception, value |-> <<"...", NoHash>>]

\* the latest call was not get_block_at_position
NoGet == [position |-> 0, index |-> 0, raised |-> "NotCalled"]

\* Blockchain(): head and genesis_block are None.  blocks lists the
\* blocks from genesis_block (first) to head (last): block.next of an
\* entry is the entry before it, block.previous the entry after it.
\* The other fields are the caller's: the calls since the head_pointer it
\* read last (that read included when it is the latest call), what that
\* read and the latest one returned, the number of change_block calls and
\* whether a call has raised.
\* got is how the caller's latest call ended when that call was
\* get_block_at_position.
EmptyChain ==
    [blocks |-> <<>>, ops |-> <<>>, previous |-> NotRead,
     pointer |-> NotRead, changes |-> 0, raised |-> FALSE, got |-> NoGet]

---------------------------------------------------------------------------
(* The parties' operations.  Each states its effect on every variable but *)
(* pc, which belongs to the caller.                                        *)

Call(p, outcome, signed, built) ==
    [party |-> p, outcome |-> outcome, signed |-> signed, built |-> built]

\* CoinMaker.mint_single_coin, with cid the value of
\* b2a_hex(os.urandom(3)).  The id source is taken at its contract
\* (spec section 6: collision-free within a run): cid is an id not drawn
\* before.
MintSingleCoin(cid) ==
    /\ cid \notin minted
    /\ minted' = minted \cup {cid}
    /\ tx' = MintTransaction(CoinMakerName, Coin(cid))
    /\ pool' = [pool EXCEPT ![CoinMakerName] = @ \cup {Coin(cid)}]
    /\ lastCall' = Call(CoinMakerName, "returned", TRUE, TRUE)
    /\ UNCHANGED <<ledger, verdict>>

\* CoinMaker.send_single_coin_to: signs and builds the Transaction first;
\* set.remove raises KeyError when the coin is not in the pool, and the
\* Transaction is then never returned.
CoinMakerSend(to_party, to_key, coin) ==
    IF coin \in pool[CoinMakerName]
    THEN /\ tx' = TransferTransaction(CoinMakerName, to_party, to_key, coin)
         /\ pool' = [pool EXCEPT ![CoinMakerName] = @ \ {coin}]
         /\ lastCall' = Call(CoinMakerName, "returned", TRUE, TRUE)
         /\ UNCHANGED <<ledger, verdict, minted>>
    ELSE /\ lastCall' = Call(CoinMakerName, "KeyError", TRUE, TRUE)
         /\ UNCHANGED <<pool, ledger, tx, verdict, minted>>

\* _does_have_coin answering yes for every coin
DoesHaveCoinAlways(p, coin) == TRUE

\* Person._does_have_coin
DoesHaveCoin(p, coin) == coin \in pool[p]

\* Person.send_single_coin_to without its self.pool.remove(coin)
PersonSendKeepsCoin(p, to_party, to_key, coin) ==
    IF ~(coin \in pool[p])
    THEN /\ lastCall' = Call(p, "RuntimeError", FALSE, FALSE)
         /\ UNCHANGED <<pool, ledger, tx, verdict, minted>>
    ELSE /\ tx' = TransferTransaction(p, to_party, to_key, coin)
         /\ lastCall' = Call(p, "returned", TRUE, TRUE)
         /\ UNCHANGED <<pool, ledger, verdict, minted>>

\* Person.send_single_coin_to: raises RuntimeError before signing when the
\* coin is not in the pool; otherwise signs, builds and removes as the
\* CoinMaker does (set.remove raises KeyError on an absent coin).
PersonSend(p, to_party, to_key, coin) ==
    IF ~DoesHaveCoin(p, coin)
    THEN /\ lastCall' = Call(p, "RuntimeError", FALSE, FALSE)
         /\ UNCHANGED <<pool, ledger, tx, verdict, minted>>
    ELSE IF coin \in pool[p]
         THEN /\ tx' = TransferTransaction(p, to_party, to_key, coin)
              /\ pool' = [pool EXCEPT ![p] = @ \ {coin}]
              /\ lastCall' = Call(p, "returned", TRUE, TRUE)
              /\ UNCHANGED <<ledger, verdict, minted>>
         ELSE /\ lastCall' = Call(p, "KeyError", TRUE, TRUE)
              /\ UNCHANGED <<pool, ledger, tx, verdict, minted>>

\* party.send_single_coin_to(to_party, to_public_key, coin), dispatched on
\* the party's class
SendSingleCoinTo(p, to_party, to_key, coin) ==
    IF p = CoinMakerName
    THEN CoinMakerSend(to_party, to_key, coin)
    ELSE PersonSend(p, to_party, to_key, coin)

\* self.ledger.append(transaction)
LedgerAppend(t) ==
    /\ ledger' = Append(ledger, t)
    /\ UNCHANGED <<pool, tx, verdict, lastCall, minted>>

\* transaction0.party_from.public_key.verify(transaction0.signature,
\* transaction0.content, ...): the caller's check of the mint
VerifyMint(t) ==
    /\ verdict' = IF Verify(PublicKey(t.party_from), t.signature, t.content)
                  THEN "ok" ELSE "InvalidSignature"
    /\ UNCHANGED <<pool, ledger, tx, lastCall, minted>>

\* self.validate(transaction)
ValidateCall(t) ==
    /\ verdict' = Validate(ledger, t)
    /\ UNCHANGED <<pool, ledger, tx, lastCall, minted>>

\* transaction.party_to.pool.add(transaction.coin)
Credit(t) ==
    /\ pool' = [pool EXCEPT ![t.party_to] = @ \cup {t.coin}]
    /\ UNCHANGED <<ledger, tx, verdict, lastCall, minted>>

---------------------------------------------------------------------------
(* Spec: a caller that repeats the steps of Environment.run.  One attempt *)
(* is in flight at a time: mint or send, append, verify or validate, and, *)
(* when validate returned, credit.  An exception ends the attempt.        *)

CoinIds == 1 .. MaxCoins
Coins == {Coin(cid) : cid \in CoinIds}
Keys == {PublicKey(p) : p \in Parties}

\* Environment.__init__ after CoinMaker.__init__ and Person.__init__
Init ==
    /\ pool = [p \in Parties |-> {}]
    /\ ledger = <<>>
    /\ tx = NoTx
    /\ verdict = "none"
    /\ lastCall = Call(None, "none", FALSE, FALSE)
    /\ minted = {}
    /\ pc = "idle"
    /\ threads = NoThreads
    /\ chain = EmptyChain

Mint ==
    /\ pc = "idle"
    /\ Len(ledger) < MaxLedger
    /\ \E cid \in CoinIds : MintSingleCoin(cid)
    /\ pc' = "built"
    /\ UNCHANGED <<threads, chain>>

Send ==
    /\ pc = "idle"
    /\ Len(ledger) < MaxLedger
    /\ \E p \in Parties, to_party \in Parties, to_key \in Keys, coin \in Coins :
           SendSingleCoinTo(p, to_party, to_key, coin)
    /\ pc' = IF lastCall'.outcome = "returned" THEN "built" ELSE "idle"
    /\ UNCHANGED <<threads, chain>>

AppendStep ==
    /\ pc = "built"
    /\ LedgerAppend(tx)
    /\ pc' = "appended"
    /\ UNCHANGED <<threads, chain>>

VerifyMintStep ==
    /\ pc = "appended"
    /\ tx.type = "mint"
    /\ VerifyMint(tx)
    /\ pc' = "idle"
    /\ UNCHANGED <<threads, chain>>

ValidateStep ==
    /\ pc = "appended"
    /\ tx.type = "transfer"
    /\ ValidateCall(tx)
    /\ pc' = IF verdict' = "ok" THEN "validated" ELSE "idle"
    /\ UNCHANGED <<threads, chain>>

\* the caller crediting the recipient without waiting for validate
CreditBeforeValidate ==
    /\ pc = "appended"
    /\ tx.type = "transfer"
    /\ Credit(tx)
    /\ pc' = "idle"
    /\ UNCHANGED <<threads, chain>>

CreditStep ==
    /\ pc = "validated"
    /\ Credit(tx)
    /\ pc' = "idle"
    /\ UNCHANGED <<threads, chain>>

Next ==
    \/ Mint
    \/ Send
    \/ AppendStep
    \/ VerifyMintStep
    \/ ValidateStep
    \/ CreditStep

Spec == Init /\ [][Next]_vars

---------------------------------------------------------------------------
(* RunSpec: Environment.run, one action per statement.  An exception that *)
(* run does not catch ends it at pc = "raised".                            *)

RunCoinIds == 1 .. MaxCid

RunInit ==
    /\ pool = [p \in Parties |-> {}]
    /\ ledger = <<>>
    /\ tx = NoTx
    /\ verdict = "none"
    /\ lastCall = Call(None, "none", FALSE, FALSE)
    /\ minted = {}
    /\ pc = "run"
    /\ threads = NoThreads
    /\ chain = EmptyChain

\* transaction0 = self.coin_maker.mint_single_coin()
RunMint ==
    /\ pc = "run"
    /\ \E cid \in RunCoinIds : MintSingleCoin(cid)
    /\ pc' = "mint_built"
    /\ UNCHANGED <<threads, chain>>

\* self.ledger.append(transaction0)
RunAppend0 ==
    /\ pc = "mint_built"
    /\ LedgerAppend(tx)
    /\ pc' = "mint_appended"
    /\ UNCHANGED <<threads, chain>>

\* transaction0.party_from.public_key.verify(...)
RunVerify0 ==
    /\ pc = "mint_appended"
    /\ VerifyMint(tx)
    /\ pc' = IF verdict' = "ok" THEN "mint_verified" ELSE "raised"
    /\ UNCHANGED <<threads, chain>>

\* transaction1 = self.coin_maker.send_single_coin_to(to_party=self.alice,
\*     to_public_key=self.alice.public_key, coin=transaction0.coin)
RunSend1 ==
    /\ pc = "mint_verified"
    /\ SendSingleCoinTo(CoinMakerName, "Alice", PublicKey("Alice"), tx.coin)
    /\ pc' = IF lastCall'.outcome = "returned" THEN "t1_built" ELSE "raised"
    /\ UNCHANGED <<threads, chain>>

\* self.ledger.append(transaction1)
RunAppend1 ==
    /\ pc = "t1_built"
    /\ LedgerAppend(tx)
    /\ pc' = "t1_appended"
    /\ UNCHANGED <<threads, chain>>

\* self.validate(transaction1)
RunValidate1 ==
    /\ pc = "t1_appended"
    /\ ValidateCall(tx)
    /\ pc' = IF verdict' = "ok" THEN "t1_validated" ELSE "raised"
    /\ UNCHANGED <<threads, chain>>

\* self.alice.pool.add(transaction1.coin)
RunCredit1 ==
    /\ pc = "t1_validated"
    /\ Credit(tx)
    /\ pc' = "t1_credited"
    /\ UNCHANGED <<threads, chain>>

\* transaction2 = self.alice.send_single_coin_to(to_party=self.bob,
\*     to_public_key=self.bob.public_key, coin=transaction1.coin)
RunSend2 ==
    /\ pc = "t1_credited"
    /\ SendSingleCoinTo("Alice", "Bob", PublicKey("Bob"), tx.coin)
    /\ pc' = IF lastCall'.outcome = "returned" THEN "t2_built" ELSE "raised"
    /\ UNCHANGED <<threads, chain>>

\* self.ledger.append(transaction2)
RunAppend2 ==
    /\ pc = "t2_built"
    /\ LedgerAppend(tx)
    /\ pc' = "t2_appended"
    /\ UNCHANGED <<threads, chain>>

\* self.validate(transaction2)
RunValidate2 ==
    /\ pc = "t2_appended"
    /\ ValidateCall(tx)
    /\ pc' = IF verdict' = "ok" THEN "t2_validated" ELSE "raised"
    /\ UNCHANGED <<threads, chain>>

\* self.bob.pool.add(transaction2.coin)
RunCredit2 ==
    /\ pc = "t2_validated"
    /\ Credit(tx)
    /\ pc' = "t2_credited"
    /\ UNCHANGED <<threads, chain>>

\* try: self.public_keys[self.coin_maker.name].verify(transaction2.signature,
\*     transaction2.content, ...) except InvalidSignature: print(...)
RunForgedCheck ==
    /\ pc = "t2_credited"
    /\ verdict' = IF Verify(PublicKey(CoinMakerName), tx.signature, tx.content)
                  THEN "ok" ELSE "InvalidSignature"
    /\ pc' = "done"
    /\ UNCHANGED <<pool, ledger, tx, lastCall, minted>>
    /\ UNCHANGED <<threads, chain>>

RunNext ==
    \/ RunMint
    \/ RunAppend0
    \/ RunVerify0
    \/ RunSend1
    \/ RunAppend1
    \/ RunValidate1
    \/ RunCredit1
    \/ RunSend2
    \/ RunAppend2
    \/ RunValidate2
    \/ RunCredit2
    \/ RunForgedCheck

RunSpec == RunInit /\ [][RunNext]_vars

---------------------------------------------------------------------------
(* LedgerSpec: validate on any ledger.  Transaction is a public dataclass *)
(* and Environment.ledger a public list, so the ledger may hold any       *)
(* well-typed transaction: a transfer of a coin its signer never held, a  *)
(* transfer with no mint before it, a signature made by another party.    *)

\* a mint or transfer record whose signature was made by party s
SignedBy(t, s) == [t EXCEPT !.signature = Sign(s, t.content)]

\* mints by the coin maker, signed by itself or forged by Alice
LedgerCoins == {Coin(1), Coin(2)}

AnyMints ==
    {SignedBy(MintTransaction(CoinMakerName, c), s) :
        c \in LedgerCoins, s \in {CoinMakerName, "Alice"}}

\* transfers between two distinct parties, signed by the sender or forged
\* by the recipient
AnyTransfers ==
    UNION {{SignedBy(TransferTransaction(x[1], x[2], PublicKey(x[2]), c), s) :
                s \in {x[1], x[2]}} :
            x \in {y \in Parties \X Parties : y[1] # y[2]}, c \in LedgerCoins}

AnyTransactions == AnyMints \cup AnyTransfers

LedgerInit ==
    /\ pool = [p \in Parties |-> {}]
    /\ ledger = <<>>
    /\ tx = NoTx
    /\ verdict = "none"
    /\ lastCall = Call(None, "none", FALSE, FALSE)
    /\ minted = {}
    /\ pc = "ledger"
    /\ threads = NoThreads
    /\ chain = EmptyChain

\* someone appends a transaction to the ledger
AppendAny ==
    /\ pc = "ledger"
    /\ Len(ledger) < MaxForged
    /\ \E t \in AnyTransactions : ledger' = Append(ledger, t)
    /\ tx' = NoTx
    /\ verdict' = "none"
    /\ UNCHANGED <<pool, lastCall, minted, pc>>
    /\ UNCHANGED <<threads, chain>>

\* validate dropping the last ledger entry when it rejects a transaction
ValidateAnyDropsInvalid ==
    /\ pc = "ledger"
    /\ \E i \in 1 .. Len(ledger) :
           /\ tx' = ledger[i]
           /\ verdict' = Validate(ledger, ledger[i])
           /\ ledger' = IF verdict' = "ok" THEN ledger
                        ELSE SubSeq(ledger, 1, Len(ledger) - 1)
    /\ UNCHANGED <<pool, lastCall, minted, pc>>
    /\ UNCHANGED <<threads, chain>>

\* validate is called with a transaction of the ledger
ValidateAny ==
    /\ pc = "ledger"
    /\ \E i \in 1 .. Len(ledger) :
           /\ tx' = ledger[i]
           /\ verdict' = Validate(ledger, ledger[i])
    /\ UNCHANGED <<pool, ledger, lastCall, minted, pc>>
    /\ UNCHANGED <<threads, chain>>

LedgerNext ==
    \/ AppendAny
    \/ ValidateAny

LedgerSpec == LedgerInit /\ [][LedgerNext]_vars

---------------------------------------------------------------------------
(* python/linked_list_hash.py: the operations of Blockchain.  Each takes   *)
(* the list of blocks and gives the list after the call and the exception  *)
(* the call raised ("none" when it returned).                              *)

Last(blocks) == blocks[Len(blocks)]

Outcome(blocks, raised) == [blocks |-> blocks, raised |-> raised]

\* the block with the hash _hash_block returns stored in block.hash
WithHash(block) == [Hashed(block) EXCEPT !.hash = HashBlock(block)]

\* add_block(Block(data))
AddBlock(blocks, data) ==
    IF blocks # <<>>
    THEN LET new_block == [Block(data) EXCEPT !.next_hash = Last(blocks).hash]
         IN  IF HashBlockRaises(new_block)
             THEN Outcome(Append(blocks, new_block), "RuntimeError")
             ELSE Outcome(Append(blocks, WithHash(new_block)), "none")
    ELSE LET new_block == Block(data)
         IN  Outcome(<<[new_block EXCEPT
                           !.hash = HashBlockData(new_block),
                           !.data_hash = HashBlockData(new_block)]>>, "none")

\* the loop stores in current.previous.next_hash the data hash of current
\* in place of its hash
RECURSIVE BackPropagateDataHashFrom(_, _)
BackPropagateDataHashFrom(blocks, i) ==
    IF i = Len(blocks)
    THEN Outcome(blocks, "none")
    ELSE IF HashBlockRaises(blocks[i])
    THEN Outcome(blocks, "RuntimeError")
    ELSE LET previous == [blocks[i + 1] EXCEPT
                              !.next_hash = HashBlockData(blocks[i])]
             hashed == [blocks EXCEPT ![i] = Hashed(@)]
         IN  IF HashBlockRaises(previous)
             THEN Outcome([hashed EXCEPT ![i + 1] = previous], "RuntimeError")
             ELSE BackPropagateDataHashFrom(
                      [hashed EXCEPT ![i + 1] = WithHash(previous)], i + 1)

\* the loop of back_propagate_changes with current = blocks[i], whose hash
\* the caller has stored: it stores next_hash and hash of current.previous
\* and moves to it, as far as the head
RECURSIVE BackPropagateFrom(_, _)
BackPropagateFrom(blocks, i) ==
    IF i = Len(blocks)
    THEN Outcome(blocks, "none")
    ELSE IF HashBlockRaises(blocks[i])
    THEN Outcome(blocks, "RuntimeError")
    ELSE LET previous == [blocks[i + 1] EXCEPT
                              !.next_hash = HashBlock(blocks[i])]
             hashed == [blocks EXCEPT ![i] = Hashed(@)]
         IN  IF HashBlockRaises(previous)
             THEN Outcome([hashed EXCEPT ![i + 1] = previous], "RuntimeError")
             ELSE BackPropagateFrom(
                      [hashed EXCEPT ![i + 1] = WithHash(previous)], i + 1)

\* back_propagate_changes()
BackPropagateChanges(blocks) ==
    IF blocks = <<>> \/ HashBlockRaises(blocks[1])
    THEN Outcome(blocks, "RuntimeError")
    ELSE BackPropagateFrom([blocks EXCEPT ![1] = WithHash(@)], 1)

\* the property head_pointer: _hash_block(head) stores head.data_hash
HeadPointer(blocks) ==
    IF blocks = <<>> \/ HashBlockRaises(Last(blocks))
    THEN [blocks |-> blocks, result |-> Raised("RuntimeError")]
    ELSE [blocks |-> [blocks EXCEPT ![Len(blocks)] = Hashed(@)],
          result |-> Returned(DisplayXCharactersOfString(
                                  HashBlock(Last(blocks))))]

\* len(range(1, position)): the steps get_block_at_position takes along
\* block.next
Steps(position) == IF position > 1 THEN position - 1 ELSE 0

\* get_block_at_position(position): the index in blocks of the block it
\* returns, position 1 being the head
GetBlockAtPosition(blocks, position) ==
    IF blocks = <<>>
    THEN [index |-> 0, raised |-> "RuntimeError"]
    ELSE IF Steps(position) > Len(blocks) - 1
    THEN [index |-> 0, raised |-> "ValueError"]
    ELSE [index |-> Len(blocks) - Steps(position), raised |-> "none"]

\* change_block(position, new_data)
ChangeBlock(blocks, position, new_data) ==
    LET block_to_change == GetBlockAtPosition(blocks, position)
    IN  IF block_to_change.raised # "none"
        THEN Outcome(blocks, block_to_change.raised)
        ELSE Outcome([blocks EXCEPT ![block_to_change.index].data = new_data],
                     "none")

---------------------------------------------------------------------------
(* ChainSpec: a caller of one Blockchain that adds blocks, reads           *)
(* head_pointer, changes a block after a read as the tests do, and         *)
(* propagates, keeping the exceptions the calls raise.  It adds no block   *)
(* once it has changed one.                                                *)

\* the positions the caller passes to change_block
Positions == 0 .. MaxBlocks + 1

Op(name, position, different, raised) ==
    [op |-> name, position |-> position, different |-> different,
     raised |-> raised]

\* the latest call was a read of head_pointer
JustRead == chain.ops # <<>> /\ Last(chain.ops).op = "head_pointer"

\* the caller may call back_propagate_changes
MayCall == JustRead \/ Len(chain.ops) < MaxOps

\* the caller's record after the call op: the calls since a read begin
\* anew after the next read
Logged(op, blocks) ==
    [chain EXCEPT !.blocks = blocks,
                  !.ops = IF JustRead THEN <<op>> ELSE Append(@, op),
                  !.previous = IF JustRead THEN chain.pointer ELSE @,
                  !.raised = @ \/ op.raised # "none",
                  !.got = NoGet]

ChainInit ==
    /\ pool = [p \in Parties |-> {}]
    /\ ledger = <<>>
    /\ tx = NoTx
    /\ verdict = "none"
    /\ lastCall = Call(None, "none", FALSE, FALSE)
    /\ minted = {}
    /\ pc = "chain"
    /\ threads = NoThreads
    /\ chain = EmptyChain

AddBlockStep ==
    /\ pc = "chain"
    /\ chain.changes = 0
    /\ Len(chain.blocks) < MaxBlocks
    /\ \E data \in BlockData :
          LET call == AddBlock(chain.blocks, data)
          IN  chain' = Logged(Op("add_block", 0, FALSE, call.raised),
                              call.blocks)
    /\ UNCHANGED <<coinVars, threads>>

ChangeBlockStep ==
    /\ pc = "chain"
    /\ JustRead
    /\ chain.changes < MaxChanges
    /\ \E position \in Positions, new_data \in BlockData :
          LET call == ChangeBlock(chain.blocks, position, new_data)
              block == GetBlockAtPosition(chain.blocks, position)
              different == /\ block.raised = "none"
                           /\ chain.blocks[block.index].data # new_data
          IN  chain' = [Logged(Op("change_block", position, different,
                                  call.raised), call.blocks)
                           EXCEPT !.changes = @ + 1]
    /\ UNCHANGED <<coinVars, threads>>

BackPropagateStep ==
    /\ pc = "chain"
    /\ MayCall
    /\ LET call == BackPropagateChanges(chain.blocks)
       IN  chain' = Logged(Op("back_propagate_changes", 0, FALSE, call.raised),
                           call.blocks)
    /\ UNCHANGED <<coinVars, threads>>

HeadPointerStep ==
    /\ pc = "chain"
    /\ LET call == HeadPointer(chain.blocks)
       IN  chain' = [Logged(Op("head_pointer", 0, FALSE, call.result.raised),
                            call.blocks)
                        EXCEPT !.pointer = call.result]
    /\ UNCHANGED <<coinVars, threads>>

\* the positions the caller passes to get_block_at_position
GetPositions == -1 .. MaxBlocks + 1

\* all the calls that changed the chain so far are add_block calls
Building ==
    /\ chain.previous = NotRead
    /\ \A i \in 1 .. Len(chain.ops) : chain.ops[i].op = "add_block"

\* get_block_at_position(position), called while the chain is built: the
\* call changes nothing in the chain, the caller keeps how it ended
GetBlockStep ==
    /\ pc = "chain"
    /\ Building
    /\ \E position \in GetPositions :
          LET call == GetBlockAtPosition(chain.blocks, position)
          IN  chain' = [chain EXCEPT
                           !.got = [position |-> position,
                                    index |-> call.index,
                                    raised |-> call.raised]]
    /\ UNCHANGED <<coinVars, threads>>

ChainNext ==
    \/ AddBlockStep
    \/ ChangeBlockStep
    \/ BackPropagateStep
    \/ HeadPointerStep
    \/ GetBlockStep

ChainSpec == ChainInit /\ [][ChainNext]_vars

---------------------------------------------------------------------------
(* RaceSpec: two calls of send_single_coin_to by one party, run by two     *)
(* threads that interleave statement by statement: the membership check    *)
(* (Person only), the signing, the construction of the Transaction, and    *)
(* self.pool.remove(coin) with the return.  The party holds any of two     *)
(* coins, each call names one of them and a recipient.                     *)

Threads == {1, 2}

RaceCoins == {Coin(1), Coin(2)}

\* the ledger entries that brought coin to party p
Custody(p, coin) ==
    IF p = CoinMakerName
    THEN <<MintTransaction(CoinMakerName, coin)>>
    ELSE <<MintTransaction(CoinMakerName, coin),
           TransferTransaction(CoinMakerName, p, PublicKey(p), coin)>>

\* a call of p.send_single_coin_to(to_party, to_key, coin) about to run
\* its first statement
Started(p, to_party, to_key, coin) ==
    [at |-> IF p = CoinMakerName THEN "sign" ELSE "check",
     party |-> p, to_party |-> to_party, to_key |-> to_key, coin |-> coin,
     signature |-> Sign(None, <<>>), transaction |-> NoTx,
     outcome |-> "running"]

RaceInit ==
    \E p \in Parties, held \in SUBSET RaceCoins :
       /\ pool = [q \in Parties |-> IF q = p THEN held ELSE {}]
       /\ ledger = (IF Coin(1) \in held THEN Custody(p, Coin(1)) ELSE <<>>)
                   \o (IF Coin(2) \in held THEN Custody(p, Coin(2)) ELSE <<>>)
       /\ minted = {c.cid : c \in held}
       /\ tx = NoTx
       /\ verdict = "none"
       /\ lastCall = Call(None, "none", FALSE, FALSE)
       /\ pc = "race"
       /\ chain = EmptyChain
       /\ threads \in [Threads ->
              {Started(p, to_party, PublicKey(to_party), coin) :
                   to_party \in Parties, coin \in RaceCoins}]

\* if not self._does_have_coin(coin): raise RuntimeError(...)
RaceCheck(t) ==
    /\ pc = "race"
    /\ threads[t].at = "check"
    /\ LET call == threads[t]
       IN  threads' = [threads EXCEPT ![t] =
               IF DoesHaveCoin(call.party, call.coin)
               THEN [call EXCEPT !.at = "sign"]
               ELSE [call EXCEPT !.at = "done", !.outcome = "RuntimeError"]]
    /\ UNCHANGED <<coinVars, chain>>

\* signature = self._private_key.sign(coin_id_and_public_key, ...)
RaceSign(t) ==
    /\ pc = "race"
    /\ threads[t].at = "sign"
    /\ LET call == threads[t]
       IN  threads' = [threads EXCEPT ![t] =
               [call EXCEPT !.at = "build",
                            !.signature =
                                Sign(call.party,
                                     TransferContent(call.coin, call.to_key))]]
    /\ UNCHANGED <<coinVars, chain>>

\* transaction = Transaction(...)
RaceBuild(t) ==
    /\ pc = "race"
    /\ threads[t].at = "build"
    /\ LET call == threads[t]
       IN  threads' = [threads EXCEPT ![t] =
               [call EXCEPT !.at = "remove",
                            !.transaction =
                                [TransferTransaction(call.party, call.to_party,
                                                     call.to_key, call.coin)
                                    EXCEPT !.signature = call.signature]]]
    /\ UNCHANGED <<coinVars, chain>>

\* self.pool.discard(coin) in place of self.pool.remove(coin): an absent
\* coin raises nothing
RaceDiscard(t) ==
    /\ pc = "race"
    /\ threads[t].at = "remove"
    /\ pool' = [pool EXCEPT ![threads[t].party] = @ \ {threads[t].coin}]
    /\ threads' = [threads EXCEPT ![t] =
                      [@ EXCEPT !.at = "done", !.outcome = "returned"]]
    /\ UNCHANGED <<ledger, tx, verdict, lastCall, minted, pc, chain>>

\* self.pool.remove(coin); return transaction.  set.remove raises KeyError
\* on an absent coin and the call then returns nothing.
RaceRemove(t) ==
    /\ pc = "race"
    /\ threads[t].at = "remove"
    /\ IF threads[t].coin \in pool[threads[t].party]
       THEN /\ pool' = [pool EXCEPT
                           ![threads[t].party] = @ \ {threads[t].coin}]
            /\ threads' = [threads EXCEPT ![t] =
                  [@ EXCEPT !.at = "done", !.outcome = "returned"]]
       ELSE /\ pool' = pool
            /\ threads' = [threads EXCEPT ![t] =
                  [@ EXCEPT !.at = "done", !.outcome = "KeyError"]]
    /\ UNCHANGED <<ledger, tx, verdict, lastCall, minted, pc, chain>>

RaceNext ==
    \E t \in Threads :
       \/ RaceCheck(t)
       \/ RaceSign(t)
       \/ RaceBuild(t)
       \/ RaceRemove(t)

RaceSpec == RaceInit /\ [][RaceNext]_vars

---------------------------------------------------------------------------
(* Properties *)

Holders(coin) == {p \in Parties : coin \in pool[p]}

\* the ledger is the mint of one coin by the coin maker followed by
\* transfers of that coin, each genuinely signed by the recipient of the
\* one before it (the minter for the first) and naming its recipient's key
LegitChain(L) ==
    /\ Len(L) >= 2
    /\ L[1] = MintTransaction(CoinMakerName, L[1].coin)
    /\ \A i \in 2 .. Len(L) :
           LET prev == IF i = 2 THEN L[1].party_from ELSE L[i - 1].party_to
           IN  /\ L[i].party_to \in Parties
               /\ L[i] = TransferTransaction(prev, L[i].party_to,
                             PublicKey(L[i].party_to), L[1].coin)

\* C1: Environment.run never ends in an uncaught exception (so both calls
\* of validate return), does not stop before its last statement, and ends
\* with coin_maker.balance = 0, alice.balance = 0 and bob.balance = 1.
C1_RunEndsWithBobHolding ==
    /\ pc # "raised"
    /\ pc = "done" \/ ENABLED RunNext
    /\ pc \in {"t1_validated", "t2_validated"} => verdict = "ok"
    /\ pc = "done" =>
           /\ Balance(CoinMakerName) = 0
           /\ Balance("Alice") = 0
           /\ Balance("Bob") = 1

\* run has reached its end with the three transactions on the ledger
C1_Witness ==
    /\ pc = "done"
    /\ Len(ledger) = 3
    /\ pool["Bob"] = {tx.coin}

\* the positions before i of the transactions of the coin of L[i]
EarlierOfCoin(L, i) == {j \in 1 .. i - 1 : L[j].coin = L[i].coin}

\* the latest of a non-empty set of positions
Latest(S) == CHOOSE j \in S : \A k \in S : k <= j

\* the party a transaction leaves the coin with
HolderAfter(t) == IF t.type = "mint" THEN t.party_from ELSE t.party_to

\* C2: when validate has been called on the last ledger entry, a transfer
\* whose signer is not the party the most recent earlier transaction of
\* the same coin left the coin with (its recipient, or the minter after
\* the mint), validate has rejected it.  The claim names the failure
\* UnauthorizedSender; the formula asks only that validate did not return.
C2_NoDoubleSpend ==
    (/\ verdict # "none"
     /\ tx = ledger[Len(ledger)]
     /\ tx.type = "transfer"
     /\ EarlierOfCoin(ledger, Len(ledger)) # {}
     /\ tx.party_from #
            HolderAfter(ledger[Latest(EarlierOfCoin(ledger, Len(ledger)))]))
    => verdict # "ok"

\* C3: when validate has been called on the last ledger entry, a transfer
\* of a coin with no mint of that coin before it, validate has not
\* returned successfully.
C3_MintRootOfTrust ==
    (/\ verdict # "none"
     /\ tx = ledger[Len(ledger)]
     /\ tx.type = "transfer"
     /\ ~\E j \in EarlierOfCoin(ledger, Len(ledger)) : ledger[j].type = "mint")
    => verdict # "ok"

\* C4: when validate has been called on the last ledger entry, a transfer,
\* and some earlier transaction of the same coin failed validate at the
\* time it was the last entry, validate has failed on the transfer too.
C4_Transitivity ==
    (/\ verdict # "none"
     /\ tx = ledger[Len(ledger)]
     /\ tx.type = "transfer"
     /\ \E j \in EarlierOfCoin(ledger, Len(ledger)) :
            Validate(SubSeq(ledger, 1, j), ledger[j]) # "ok")
    => verdict # "ok"

\* C5: whenever the ledger is a legitimate custody chain of any length
\* whose last transfer has just been appended and validated, validate
\* succeeded on it.
C5_LegitChainsValidate ==
    (/\ pc \in {"validated", "idle"}
     /\ tx.type = "transfer"
     /\ LegitChain(ledger)
     /\ tx = ledger[Len(ledger)])
    => (verdict = "ok" /\ Validate(ledger, tx) = "ok")

\* C6: a send that returns takes exactly one coin from the sender and
\* credits nobody; a pool grows only by a mint or by the credit of the
\* recipient of a transfer on which validate has just returned, and then
\* by exactly one coin; when validate raises no pool changes, and a coin
\* left with no holder stays with no holder.
C6_TwoPhaseBalance ==
    [][/\ (pc = "idle" /\ pc' = "built" /\ tx'.type = "transfer") =>
              /\ Cardinality(pool'[tx'.party_from])
                   = Cardinality(pool[tx'.party_from]) - 1
              /\ \A q \in Parties \ {tx'.party_from} : pool'[q] = pool[q]
       /\ \A p \in Parties :
              Cardinality(pool'[p]) > Cardinality(pool[p]) =>
                  \/ pc = "idle" /\ tx'.type = "mint" /\ p = CoinMakerName
                  \/ /\ pc = "validated"
                     /\ verdict = "ok"
                     /\ Validate(ledger, tx) = "ok"
                     /\ p = tx.party_to
                     /\ pool'[p] = pool[p] \cup {tx.coin}
                     /\ Cardinality(pool'[p]) = Cardinality(pool[p]) + 1
       /\ (pc = "appended" /\ tx.type = "transfer" /\ verdict' # "ok") =>
              pool' = pool /\ pc' = "idle"
       /\ \A c \in Coins :
              (pc = "idle" /\ c.cid \in minted /\ Holders(c) = {}) =>
                  (\A p \in Parties : c \notin pool'[p])
      ]_vars

\* a transfer has been validated and its recipient credited
C6_Witness ==
    /\ pc = "idle"
    /\ verdict = "ok"
    /\ tx.type = "transfer"
    /\ tx.party_to # tx.party_from
    /\ tx.coin \in pool[tx.party_to]

\* C7: every coin is in the pool of at most one party.
C7_SingleHolder ==
    \A c \in Coins : Cardinality(Holders(c)) <= 1

\* two coins have been minted and sent on, one to each person
C7_Witness ==
    /\ pool["Alice"] # {}
    /\ pool["Bob"] # {}
    /\ pool[CoinMakerName] = {}

\* C8: whenever no transfer attempt is in flight, every minted coin is in
\* the pool of exactly one party.
C8_NoCoinLost ==
    pc = "idle" =>
        \A c \in Coins : c.cid \in minted => Cardinality(Holders(c)) = 1

\* C9: a Person's send_single_coin_to with a coin that is not in its pool
\* raises RuntimeError without signing or building a Transaction, returns
\* none to the caller, and changes no pool and not the ledger.  (A call
\* by p is a step that leaves lastCall.party = p.)
C9_PersonCoinNotHeld ==
    [][pc = "idle" =>
           \A p \in Persons, c \in Coins :
               (lastCall'.party = p /\ c \notin pool[p]) =>
                   \A to_party \in Parties, to_key \in Keys :
                       SendSingleCoinTo(p, to_party, to_key, c) =>
                           /\ lastCall' = Call(p, "RuntimeError", FALSE, FALSE)
                           /\ UNCHANGED <<pool, ledger, tx>>
      ]_vars

\* a Person's send has failed while the coin maker holds a minted coin
C9_Witness ==
    /\ lastCall.outcome = "RuntimeError"
    /\ lastCall.party \in Persons
    /\ pool[CoinMakerName] # {}
    /\ pc = "idle"

\* C10: send_single_coin_to of any party, the coin maker included, with a
\* coin that is not in its pool fails before signing and before building
\* a Transaction, and leaves the pools unchanged.
C10_AnyPartyCoinNotHeld ==
    [][pc = "idle" =>
           \A p \in Parties, c \in Coins :
               (lastCall'.party = p /\ c \notin pool[p]) =>
                   \A to_party \in Parties, to_key \in Keys :
                       SendSingleCoinTo(p, to_party, to_key, c) =>
                           /\ lastCall'.outcome # "returned"
                           /\ ~lastCall'.signed
                           /\ ~lastCall'.built
                           /\ UNCHANGED <<pool, tx>>
      ]_vars

\* C11: a call of validate, whether it returns or raises, leaves the
\* ledger and every pool as they were, and a call on the transaction of
\* the call before it, the ledger not having changed in between, ends as
\* that call did.
C11_ValidateReadOnly ==
    [][verdict' # "none" =>
           /\ ledger' = ledger
           /\ pool' = pool
           /\ (verdict # "none" /\ tx' = tx) => verdict' = verdict
      ]_vars

\* validate has rejected a transaction of a ledger of three entries
C11_Witness ==
    /\ pc = "ledger"
    /\ Len(ledger) = 3
    /\ verdict = "InvalidSignature"

\* the entries of L that are transactions of the given coin, in order
HistoryOf(L, coin) == SelectSeq(L, LAMBDA t : t.coin = coin)

\* C14: the verdict of validate on a transfer just appended is the verdict
\* validate gives on the ledger reduced to the entries of the transfer's
\* coin.
C14_PerCoinIsolation ==
    (/\ pc \in {"validated", "idle"}
     /\ tx.type = "transfer"
     /\ tx = ledger[Len(ledger)])
    => verdict = Validate(HistoryOf(ledger, tx.coin), tx)

\* C15: validate on a mint that is the last ledger entry succeeds exactly
\* when the mint's signature verifies over its content under its signer's
\* key, whatever entries come before it.
C15_MintOwnSignature ==
    (verdict # "none" /\ tx = ledger[Len(ledger)] /\ tx.type = "mint")
    => (verdict = "ok"
            <=> Verify(PublicKey(tx.party_from), tx.signature, tx.content))

\* C16: a ledger entry on which validate succeeded when it was the last
\* entry still validates when validate is called on it after later appends.
C16_VerdictStable ==
    (/\ verdict # "none"
     /\ \E i \in 1 .. Len(ledger) :
            /\ ledger[i] = tx
            /\ Validate(SubSeq(ledger, 1, i), tx) = "ok")
    => verdict = "ok"

\* C17: the transfer a send returns names the sender as party_from, and
\* its content is the coin id followed by the public key of its party_to.
C17_TransferNamesRecipientKey ==
    (pc = "built" /\ tx.type = "transfer")
    => /\ tx.party_from = lastCall.party
       /\ tx.content = TransferContent(tx.coin, PublicKey(tx.party_to))
       /\ tx.coin \notin pool[tx.party_from]

---------------------------------------------------------------------------
(* Properties of the Blockchain of linked_list_hash.py *)

\* the calls since the head_pointer read before the latest one are the
\* calls named, in that order, and the latest call is the second read
CallsBetweenReads(names) ==
    /\ pc = "chain"
    /\ chain.previous.raised = "none"
    /\ Len(chain.ops) = Len(names) + 1
    /\ \A i \in 1 .. Len(names) : chain.ops[i].op = names[i]
    /\ Last(chain.ops).op = "head_pointer"

\* C12: on a chain built with add_block, once change_block has replaced
\* the data of a block by different data and back_propagate_changes has
\* run, head_pointer differs from the head_pointer read before the change
\* (no call having raised)
C12_TamperEvidence ==
    (/\ CallsBetweenReads(<<"change_block", "back_propagate_changes">>)
     /\ chain.ops[1].position \in 1 .. Len(chain.blocks)
     /\ chain.ops[1].different
     /\ chain.changes = 1
     /\ ~chain.raised)
    => chain.pointer # chain.previous

\* C13: on a chain built only with add_block, head_pointer read after one
\* or more calls of back_propagate_changes, and no other call, equals the
\* head_pointer read before them
C13_BackPropagateNoOp ==
    (/\ pc = "chain"
     /\ chain.changes = 0
     /\ chain.previous.raised = "none"
     /\ Len(chain.ops) >= 2
     /\ Last(chain.ops).op = "head_pointer"
     /\ \A i \in 1 .. Len(chain.ops) - 1 :
            chain.ops[i].op = "back_propagate_changes")
    => chain.pointer = chain.previous

\* three blocks were added, back_propagate_changes ran twice between two
\* reads of head_pointer, no call raised and the reads agree
C13_Witness ==
    /\ CallsBetweenReads(<<"back_propagate_changes", "back_propagate_changes">>)
    /\ chain.changes = 0
    /\ ~chain.raised
    /\ Len(chain.blocks) = 3
    /\ chain.pointer = chain.previous

\* every block with a successor stores the successor's hash as next_hash
\* and the hash of its data combined with it as hash; the genesis block
\* stores the hash of its data alone
LinkConsistent(blocks) ==
    /\ blocks # <<>> => blocks[1].hash = HashBlockData(blocks[1])
    /\ \A i \in 2 .. Len(blocks) :
          /\ blocks[i].next_hash = blocks[i - 1].hash
          /\ blocks[i].hash = Sha256(<<Encode(PyStr(blocks[i].data)),
                                       blocks[i].next_hash>>)

\* all the calls made so far are add_block calls
OnlyAdded ==
    /\ chain.previous = NotRead
    /\ \A i \in 1 .. Len(chain.ops) : chain.ops[i].op = "add_block"

\* the latest call is back_propagate_changes and the one before it is
\* change_block
JustPropagatedChange ==
    /\ Len(chain.ops) >= 2
    /\ Last(chain.ops).op = "back_propagate_changes"
    /\ chain.ops[Len(chain.ops) - 1].op = "change_block"

\* C19: after add_block calls alone, and after change_block followed by
\* back_propagate_changes, the stored hashes of the chain are consistent
C19_HashLinkConsistency ==
    (pc = "chain" /\ (OnlyAdded \/ JustPropagatedChange))
    => LinkConsistent(chain.blocks)

\* C20: head_pointer read after change_block on a position above 1 equals
\* the head_pointer read before it, and head_pointer read after
\* change_block has put different data in position 1 differs from it
C20_HeadPointerFromHeadOnly ==
    (/\ CallsBetweenReads(<<"change_block">>)
     /\ chain.changes = 1
     /\ ~chain.raised)
    => /\ chain.ops[1].position > 1 => chain.pointer = chain.previous
       /\ (chain.ops[1].position = 1 /\ chain.ops[1].different)
              => chain.pointer # chain.previous

---------------------------------------------------------------------------
(* Properties of concurrent sends *)

\* the calls that returned a Transfer transaction
ReturnedCalls == {t \in Threads : threads[t].outcome = "returned"}

\* C18: of two interleaved send_single_coin_to calls by one party for the
\* same coin, at most one returns a Transfer transaction
C18_AtMostOneReturns ==
    (/\ pc = "race"
     /\ threads[1].party = threads[2].party
     /\ threads[1].coin = threads[2].coin)
    => Cardinality(ReturnedCalls) <= 1

\* both calls of a Person passed the membership check, signed and built a
\* Transaction for the same coin; the first returned, the second raised
\* KeyError at self.pool.remove
C18_Witness ==
    /\ pc = "race"
    /\ threads[1].party \in Persons
    /\ threads[1].coin = threads[2].coin
    /\ threads[1].outcome = "returned"
    /\ threads[2].outcome = "KeyError"
    /\ threads[2].transaction.type = "transfer"

---------------------------------------------------------------------------
(* Properties of get_block_at_position *)

\* C21: on a chain of n blocks get_block_at_position(p) returns the p-th
\* block counted from the head when 1 <= p <= n and raises ValueError for
\* every other p; on an empty chain it raises RuntimeError
C21_GetBlockAtPosition ==
    (pc = "chain" /\ chain.got.raised # "NotCalled")
    => LET n == Len(chain.blocks)
           p == chain.got.position
       IN  IF n = 0
           THEN chain.got.raised = "RuntimeError"
           ELSE IF p \in 1 .. n
           THEN /\ chain.got.raised = "none"
                /\ chain.got.index = n - p + 1
           ELSE chain.got.raised = "ValueError"

====
